---- MODULE Spec2Model ----
(***************************************************************************)
(* Model of relay/oauth2/main.go: AccessTokenManager, a cache of OAuth2     *)
(* client-credentials tokens keyed by client identifier and guarded by one  *)
(* sync.Mutex, and generateAccessToken, the fetcher behind it.              *)
(*                                                                          *)
(* Every goroutine p of Procs calls tm.GetAccessToken over and over.  One   *)
(* call is a sequence of steps, one action each; the steps are cut at the   *)
(* blocking operations (mutex.Lock, client.Do, ioutil.ReadAll) and at the   *)
(* fallible steps of generateAccessToken.  The clock `now` is what          *)
(* time.Now() returns, counted in units of 30 minutes; it advances between  *)
(* any two steps.  Lines 94-99 and 55-60 (construct the token, return it,   *)
(* store it, return its value) contain no blocking operation and are one    *)
(* step.                                                                    *)
(*                                                                          *)
(* The variables listed under "observers" record what a test double around *)
(* the fetcher and the clock would record; no guard and no update of the    *)
(* program's own state reads them.  Definitions introduced as "faulty       *)
(* variant" are seeded faults of the definition that follows them; Spec     *)
(* does not use them.                                                       *)
(***************************************************************************)
EXTENDS Integers, FiniteSets

\* ---- bounds of the model ------------------------------------------------
MaxTime == 2

\* ---- program constants ---------------------------------------------------
\* time.Hour (line 96), in clock units of 30 minutes
Hour == 2

\* the goroutines that call GetAccessToken concurrently
Procs == {"g1", "g2"}
ClientIDs == {"idA", "idB"}
Secrets == {"s1", "s2"}
GoodUrl == "https://uaa.example"
BadUrl == "%zz"
Urls == {GoodUrl, BadUrl}

Unlocked == "unlocked"
NoArg == "-"
Nil == "nil"
NoResult == [value |-> "", err |-> "pending"]
Absent == "absent"

\* JSON bodies on the wire: not JSON at all, or an object whose access_token
\* member is a string or is missing (as in an error document)
Garbage == [json |-> FALSE, access_token |-> Absent, expires_in |-> 0]
ErrorDoc == [json |-> TRUE, access_token |-> Absent, expires_in |-> 0]
TokenDocs ==
    {[json |-> TRUE, access_token |-> "abc123", expires_in |-> 1],
     [json |-> TRUE, access_token |-> "xyz789", expires_in |-> 4]}
\* what a token endpoint answers: a token document with status 200, or an error
\* document or an error page with status 401
Responses ==
    [StatusCode : {200}, Body : TokenDocs] \cup [StatusCode : {401}, Body : {ErrorDoc, Garbage}]
NoResp == [StatusCode |-> 0, Body |-> Garbage]
NoReq == [url |-> <<NoArg>>, auth |-> <<NoArg>>]

VARIABLES
    mutex,          \* tm.mutex: Unlocked or the goroutine that locked it
    tokenCache,     \* tm.tokenCache: a map, DOMAIN = the keys present
    now,            \* the clock read by time.Now()
    pc,             \* where each goroutine is in GetAccessToken
    clientID, clientSecret, uaaUrl,  \* the arguments of the current call
    req,            \* req of generateAccessToken (lines 67-74)
    resp,           \* resp / body of generateAccessToken (lines 77, 83)
    result,         \* the (string, error) the current call returns
    \* observers
    nfetch,         \* generateAccessToken invocations made by the current call
    seen,           \* tm.tokenCache as it was at line 49 of the current call
    seenFresh,      \* at line 49 the key had an entry with ExpiresAt later than the clock
    seenInHour,     \* at line 49 the key had an entry stored less than an hour before
    staleAt,        \* the clock at line 49 when the key had an entry that was not fresh ({} otherwise)
    fetched,        \* the token generateAccessToken returned to the current call ({} if none)
    insertedAt,     \* per key present: the time at which its current entry was stored
    issuedStale,    \* the key had no valid entry when the current call was issued
    sawFetch,       \* while blocked at Lock, a call for the same key, issued like this one
                    \* when the key had no valid entry, started a fetch
    sawStore,       \* while blocked at Lock, the latest token stored for the same key ({} if none)
    sawOther,       \* while blocked at Lock, the latest fetch started for the same key was
                    \* called with another clientSecret or uaaUrl than this call
    lastFailed      \* per key: the latest call for the key that got its result got an error

vars == <<mutex, tokenCache, now, pc, clientID, clientSecret, uaaUrl, req, resp, result,
          nfetch, seen, seenFresh, seenInHour, staleAt, fetched, insertedAt, issuedStale,
          sawFetch, sawStore, sawOther, lastFailed>>

\* the frame of one call, and what the observers keep per call
args == <<clientID, clientSecret, uaaUrl>>
issue == <<issuedStale, sawOther>>
lookup == <<seen, seenFresh, seenInHour, staleAt>>

\* ---- pure helpers ---------------------------------------------------------

\* faulty variant: receiver and argument of Before swapped
BeforeSwapped(t, u) == u < t

\* time.Time.Before (line 49)
Before(t, u) == t < u

\* faulty variant: the entry is served whatever its expiry
IsValidNoExpiry(cache, id, t) == id \in DOMAIN cache

\* faulty variant: the cache is never consulted, every call fetches
IsValidNever(cache, id, t) == FALSE

\* line 49: token, ok := tm.tokenCache[clientID]; ok && time.Now().Before(token.ExpiresAt)
IsValid(cache, id, t) == id \in DOMAIN cache /\ Before(t, cache[id].ExpiresAt)

\* faulty variant: an existing entry is kept, only a missing one is inserted
MapStoreKeepOld(cache, id, tok) ==
    [k \in DOMAIN cache \cup {id} |-> IF k \in DOMAIN cache THEN cache[k] ELSE tok]

\* a map without the key id (no line of the program does this; used by the faulty variants)
MapDelete(cache, id) == [k \in DOMAIN cache \ {id} |-> cache[k]]

\* faulty variant: the map is replaced by one that holds the new entry only
MapStoreOnly(cache, id, tok) == [k \in {id} |-> tok]

\* line 58: tm.tokenCache[clientID] = newToken
MapStore(cache, id, tok) ==
    [k \in DOMAIN cache \cup {id} |-> IF k = id THEN tok ELSE cache[k]]

\* line 64 and http.NewRequest's url.Parse: the request URL parses unless the base
\* URL carries an invalid percent escape
RequestUrl(u) == <<u, "/oauth/token?grant_type=client_credentials">>
UrlParses(url) == url[1] # BadUrl

\* lines 72-73: "Basic " + base64(clientID + ":" + clientSecret)
AuthHeader(id, secret) == <<"Basic", "base64", id, ":", secret>>

\* json.Unmarshal into AccessTokenResponse (lines 88-92): an error for a body that is
\* not JSON; a missing member leaves the field at its zero value
UnmarshalOK(body) == body.json
Unmarshal(body) ==
    [AccessToken |-> IF body.access_token = Absent THEN "" ELSE body.access_token,
     ExpiresIn |-> body.expires_in]

\* faulty variant: the lifetime the server reported is honoured
BuildTokenExpiresIn(tokenResp, t) ==
    [Value |-> tokenResp.AccessToken, ExpiresAt |-> t + tokenResp.ExpiresIn]

\* faulty variant: time.Now() without the Add
BuildTokenNoWindow(tokenResp, t) == [Value |-> tokenResp.AccessToken, ExpiresAt |-> t]

\* lines 94-97: the token built from the decoded response at time t
BuildToken(tokenResp, t) == [Value |-> tokenResp.AccessToken, ExpiresAt |-> t + Hour]

\* observer's own reading of "the key has an entry that expires after t"
IsFresh(cache, id, t) == id \in DOMAIN cache /\ cache[id].ExpiresAt > t

\* ---- initial state: NewAccessTokenManager (lines 36-40), no call started ----
Init ==
    /\ mutex = Unlocked
    /\ tokenCache = << >>
    /\ now = 0
    /\ pc = [p \in Procs |-> "idle"]
    /\ clientID = [p \in Procs |-> NoArg]
    /\ clientSecret = [p \in Procs |-> NoArg]
    /\ uaaUrl = [p \in Procs |-> NoArg]
    /\ req = [p \in Procs |-> NoReq]
    /\ resp = [p \in Procs |-> NoResp]
    /\ result = [p \in Procs |-> NoResult]
    /\ nfetch = [p \in Procs |-> 0]
    /\ seenFresh = [p \in Procs |-> FALSE]
    /\ seenInHour = [p \in Procs |-> FALSE]
    /\ staleAt = [p \in Procs |-> {}]
    /\ seen = [p \in Procs |-> << >>]
    /\ fetched = [p \in Procs |-> {}]
    /\ insertedAt = << >>
    /\ issuedStale = [p \in Procs |-> FALSE]
    /\ sawFetch = [p \in Procs |-> FALSE]
    /\ sawStore = [p \in Procs |-> {}]
    /\ sawOther = [p \in Procs |-> FALSE]
    /\ lastFailed = [id \in ClientIDs |-> FALSE]

\* ---- the clock -------------------------------------------------------------
Tick ==
    /\ now < MaxTime
    /\ now' = now + 1
    /\ UNCHANGED <<mutex, tokenCache, pc, args, req, resp, result, nfetch, lookup, fetched,
                   insertedAt, issue, sawFetch, sawStore, lastFailed>>

\* ---- GetAccessToken --------------------------------------------------------

\* a goroutine calls tm.GetAccessToken(id, secret, url) (line 44)
Call(p) ==
    /\ pc[p] = "idle"
    /\ \E id \in ClientIDs, secret \in Secrets, url \in Urls :
        /\ clientID' = [clientID EXCEPT ![p] = id]
        /\ clientSecret' = [clientSecret EXCEPT ![p] = secret]
        /\ uaaUrl' = [uaaUrl EXCEPT ![p] = url]
        /\ issuedStale' = [issuedStale EXCEPT ![p] = ~IsFresh(tokenCache, id, now)]
    /\ pc' = [pc EXCEPT ![p] = "lock"]
    /\ UNCHANGED <<mutex, tokenCache, now, req, resp, result, nfetch, lookup, fetched,
                   insertedAt, sawFetch, sawStore, sawOther, lastFailed>>

\* faulty variant: Lock does not wait for the mutex to be free
LockNoWait(p) ==
    /\ pc[p] = "lock"
    /\ mutex' = p
    /\ pc' = [pc EXCEPT ![p] = "lookup"]
    /\ UNCHANGED <<tokenCache, now, args, req, resp, result, nfetch, lookup, fetched,
                   insertedAt, issue, sawFetch, sawStore, lastFailed>>

\* faulty variant: one lock per key, a call waits only for a holder with the same key
LockPerKey(p) ==
    /\ pc[p] = "lock"
    /\ mutex = Unlocked \/ (mutex # Unlocked /\ clientID[mutex] # clientID[p])
    /\ mutex' = p
    /\ pc' = [pc EXCEPT ![p] = "lookup"]
    /\ UNCHANGED <<tokenCache, now, args, req, resp, result, nfetch, lookup, fetched,
                   insertedAt, issue, sawFetch, sawStore, lastFailed>>

\* line 45: tm.mutex.Lock() returns once the mutex is free
Lock(p) ==
    /\ pc[p] = "lock"
    /\ mutex = Unlocked
    /\ mutex' = p
    /\ pc' = [pc EXCEPT ![p] = "lookup"]
    /\ UNCHANGED <<tokenCache, now, args, req, resp, result, nfetch, lookup, fetched,
                   insertedAt, issue, sawFetch, sawStore, lastFailed>>

\* what the observers note at the lookup of line 49
Observe(p) ==
    /\ seen' = [seen EXCEPT ![p] = tokenCache]
    /\ seenFresh' = [seenFresh EXCEPT ![p] = IsFresh(tokenCache, clientID[p], now)]
    /\ seenInHour' = [seenInHour EXCEPT ![p] =
                        /\ clientID[p] \in DOMAIN insertedAt
                        /\ now < insertedAt[clientID[p]] + Hour]
    /\ staleAt' = [staleAt EXCEPT ![p] =
                     IF clientID[p] \in DOMAIN tokenCache /\ ~IsFresh(tokenCache, clientID[p], now)
                     THEN {now} ELSE {}]

\* lines 49-51: a valid entry is returned
CacheHit(p) ==
    /\ pc[p] = "lookup"
    /\ IsValid(tokenCache, clientID[p], now)
    /\ result' = [result EXCEPT ![p] = [value |-> tokenCache[clientID[p]].Value, err |-> Nil]]
    /\ pc' = [pc EXCEPT ![p] = "unlock"]
    /\ Observe(p)
    /\ lastFailed' = [lastFailed EXCEPT ![clientID[p]] = FALSE]
    /\ UNCHANGED <<mutex, tokenCache, now, args, req, resp, nfetch, fetched, insertedAt,
                   issue, sawFetch, sawStore>>

\* faulty variant: the entry is served only to a call whose uaaUrl is well formed
CacheMissOrBadUrl(p) ==
    /\ pc[p] = "lookup"
    /\ ~IsValid(tokenCache, clientID[p], now) \/ ~UrlParses(RequestUrl(uaaUrl[p]))
    /\ pc' = [pc EXCEPT ![p] = "newreq"]
    /\ nfetch' = [nfetch EXCEPT ![p] = @ + 1]
    /\ Observe(p)
    /\ sawFetch' = [q \in Procs |->
                      IF q # p /\ pc[q] = "lock" /\ clientID[q] = clientID[p] /\ issuedStale[p]
                      THEN TRUE ELSE sawFetch[q]]
    /\ sawOther' = [q \in Procs |->
                      IF q # p /\ pc[q] = "lock" /\ clientID[q] = clientID[p]
                      THEN clientSecret[q] # clientSecret[p] \/ uaaUrl[q] # uaaUrl[p]
                      ELSE sawOther[q]]
    /\ UNCHANGED <<mutex, tokenCache, now, args, req, resp, result, fetched, insertedAt,
                   issuedStale, sawStore, lastFailed>>

\* lines 49, 54: no valid entry, generateAccessToken is called
CacheMiss(p) ==
    /\ pc[p] = "lookup"
    /\ ~IsValid(tokenCache, clientID[p], now)
    /\ pc' = [pc EXCEPT ![p] = "newreq"]
    /\ nfetch' = [nfetch EXCEPT ![p] = @ + 1]
    /\ Observe(p)
    /\ sawFetch' = [q \in Procs |->
                      IF q # p /\ pc[q] = "lock" /\ clientID[q] = clientID[p] /\ issuedStale[p]
                      THEN TRUE ELSE sawFetch[q]]
    /\ sawOther' = [q \in Procs |->
                      IF q # p /\ pc[q] = "lock" /\ clientID[q] = clientID[p]
                      THEN clientSecret[q] # clientSecret[p] \/ uaaUrl[q] # uaaUrl[p]
                      ELSE sawOther[q]]
    /\ UNCHANGED <<mutex, tokenCache, now, args, req, resp, result, fetched, insertedAt,
                   issuedStale, sawStore, lastFailed>>

\* faulty variant: a failed fetch evicts the key's entry
ReturnErrEvict(p, e) ==
    /\ result' = [result EXCEPT ![p] = [value |-> "", err |-> e]]
    /\ pc' = [pc EXCEPT ![p] = "unlock"]
    /\ lastFailed' = [lastFailed EXCEPT ![clientID[p]] = TRUE]
    /\ tokenCache' = MapDelete(tokenCache, clientID[p])
    /\ insertedAt' = MapDelete(insertedAt, clientID[p])
    /\ UNCHANGED <<fetched, sawStore>>

\* faulty variant: a failed fetch falls back to the expired entry when there is one
ReturnErrStale(p, e) ==
    /\ result' = [result EXCEPT ![p] =
                     IF clientID[p] \in DOMAIN tokenCache
                     THEN [value |-> tokenCache[clientID[p]].Value, err |-> Nil]
                     ELSE [value |-> "", err |-> e]]
    /\ pc' = [pc EXCEPT ![p] = "unlock"]
    /\ lastFailed' = [lastFailed EXCEPT ![clientID[p]] = TRUE]
    /\ UNCHANGED <<tokenCache, insertedAt, fetched, sawStore>>

\* faulty variant: a failed fetch is cached as an empty token for an hour
ReturnErrNegCache(p, e) ==
    /\ result' = [result EXCEPT ![p] = [value |-> "", err |-> e]]
    /\ pc' = [pc EXCEPT ![p] = "unlock"]
    /\ lastFailed' = [lastFailed EXCEPT ![clientID[p]] = TRUE]
    /\ tokenCache' = MapStore(tokenCache, clientID[p], [Value |-> "", ExpiresAt |-> now + Hour])
    /\ insertedAt' = MapStore(insertedAt, clientID[p], now)
    /\ UNCHANGED <<fetched, sawStore>>

\* faulty variant: the error path returns to the caller without releasing the mutex
ReturnErrNoUnlock(p, e) ==
    /\ result' = [result EXCEPT ![p] = NoResult]
    /\ pc' = [pc EXCEPT ![p] = "idle"]
    /\ lastFailed' = [lastFailed EXCEPT ![clientID[p]] = TRUE]
    /\ UNCHANGED <<tokenCache, insertedAt, fetched, sawStore>>

\* lines 55-57: generateAccessToken returned err; return "", err
ReturnErr(p, e) ==
    /\ result' = [result EXCEPT ![p] = [value |-> "", err |-> e]]
    /\ pc' = [pc EXCEPT ![p] = "unlock"]
    /\ lastFailed' = [lastFailed EXCEPT ![clientID[p]] = TRUE]
    /\ UNCHANGED <<tokenCache, insertedAt, fetched, sawStore>>

\* faulty variant: line 58 is missing, the new token is returned but not stored
StoreAndReturnNoStore(p, newToken) ==
    /\ tokenCache' = tokenCache
    /\ result' = [result EXCEPT ![p] = [value |-> newToken.Value, err |-> Nil]]
    /\ pc' = [pc EXCEPT ![p] = "unlock"]
    /\ fetched' = [fetched EXCEPT ![p] = {newToken}]
    /\ insertedAt' = MapStore(insertedAt, clientID[p], now)
    /\ sawStore' = [q \in Procs |->
                      IF q # p /\ pc[q] = "lock" /\ clientID[q] = clientID[p]
                      THEN {newToken} ELSE sawStore[q]]
    /\ lastFailed' = [lastFailed EXCEPT ![clientID[p]] = FALSE]

\* lines 55, 58-60: generateAccessToken returned newToken; store it, return its value
StoreAndReturn(p, newToken) ==
    /\ tokenCache' = MapStore(tokenCache, clientID[p], newToken)
    /\ result' = [result EXCEPT ![p] = [value |-> newToken.Value, err |-> Nil]]
    /\ pc' = [pc EXCEPT ![p] = "unlock"]
    /\ fetched' = [fetched EXCEPT ![p] = {newToken}]
    /\ insertedAt' = MapStore(insertedAt, clientID[p], now)
    /\ sawStore' = [q \in Procs |->
                      IF q # p /\ pc[q] = "lock" /\ clientID[q] = clientID[p]
                      THEN {newToken} ELSE sawStore[q]]
    /\ lastFailed' = [lastFailed EXCEPT ![clientID[p]] = FALSE]

\* ---- generateAccessToken ---------------------------------------------------
\* clientSecret and uaaUrl are not read after line 72: the model forgets them there.

\* lines 64-74: the request is built
NewRequestOK(p) ==
    /\ pc[p] = "newreq"
    /\ UrlParses(RequestUrl(uaaUrl[p]))
    /\ req' = [req EXCEPT ![p] = [url |-> RequestUrl(uaaUrl[p]),
                                  auth |-> AuthHeader(clientID[p], clientSecret[p])]]
    /\ clientSecret' = [clientSecret EXCEPT ![p] = NoArg]
    /\ uaaUrl' = [uaaUrl EXCEPT ![p] = NoArg]
    /\ pc' = [pc EXCEPT ![p] = "do"]
    /\ UNCHANGED <<mutex, tokenCache, now, clientID, resp, result, nfetch, lookup, fetched,
                   insertedAt, issue, sawFetch, sawStore, lastFailed>>

\* lines 67-70: http.NewRequest fails
NewRequestErr(p) ==
    /\ pc[p] = "newreq"
    /\ ~UrlParses(RequestUrl(uaaUrl[p]))
    /\ clientSecret' = [clientSecret EXCEPT ![p] = NoArg]
    /\ uaaUrl' = [uaaUrl EXCEPT ![p] = NoArg]
    /\ ReturnErr(p, "RequestBuildError")
    /\ UNCHANGED <<mutex, now, clientID, req, resp, nfetch, lookup, issue, sawFetch>>

\* line 77: client.Do sends the request and returns a response, of any status
DoOK(p) ==
    /\ pc[p] = "do"
    /\ \E r \in Responses : resp' = [resp EXCEPT ![p] = r]
    /\ req' = [req EXCEPT ![p] = NoReq]
    /\ pc' = [pc EXCEPT ![p] = "read"]
    /\ UNCHANGED <<mutex, tokenCache, now, args, result, nfetch, lookup, fetched,
                   insertedAt, issue, sawFetch, sawStore, lastFailed>>

\* lines 78-80: client.Do fails
DoErr(p) ==
    /\ pc[p] = "do"
    /\ req' = [req EXCEPT ![p] = NoReq]
    /\ ReturnErr(p, "TransportError")
    /\ UNCHANGED <<mutex, now, args, resp, nfetch, lookup, issue, sawFetch>>

\* line 83: ioutil.ReadAll reads the whole body
ReadAllOK(p) ==
    /\ pc[p] = "read"
    /\ pc' = [pc EXCEPT ![p] = "decode"]
    /\ UNCHANGED <<mutex, tokenCache, now, args, req, resp, result, nfetch, lookup, fetched,
                   insertedAt, issue, sawFetch, sawStore, lastFailed>>

\* lines 84-86: ioutil.ReadAll fails (the deferred resp.Body.Close of line 81 runs)
ReadAllErr(p) ==
    /\ pc[p] = "read"
    /\ resp' = [resp EXCEPT ![p] = NoResp]
    /\ ReturnErr(p, "ReadError")
    /\ UNCHANGED <<mutex, now, args, req, nfetch, lookup, issue, sawFetch>>

\* faulty variant: the error of json.Unmarshal is dropped and the token is built from
\* the zero-valued AccessTokenResponse
UnmarshalErrIgnored(p) ==
    /\ pc[p] = "decode"
    /\ ~UnmarshalOK(resp[p].Body)
    /\ resp' = [resp EXCEPT ![p] = NoResp]
    /\ StoreAndReturn(p, BuildToken([AccessToken |-> "", ExpiresIn |-> 0], now))
    /\ UNCHANGED <<mutex, now, args, req, nfetch, lookup, issue, sawFetch>>

\* faulty variant: a response whose status is not 200 is refused as well
UnmarshalErrOrStatus(p) ==
    /\ pc[p] = "decode"
    /\ ~UnmarshalOK(resp[p].Body) \/ resp[p].StatusCode # 200
    /\ resp' = [resp EXCEPT ![p] = NoResp]
    /\ ReturnErr(p, "DecodeError")
    /\ UNCHANGED <<mutex, now, args, req, nfetch, lookup, issue, sawFetch>>

\* lines 89-92: json.Unmarshal fails
UnmarshalErr(p) ==
    /\ pc[p] = "decode"
    /\ ~UnmarshalOK(resp[p].Body)
    /\ resp' = [resp EXCEPT ![p] = NoResp]
    /\ ReturnErr(p, "DecodeError")
    /\ UNCHANGED <<mutex, now, args, req, nfetch, lookup, issue, sawFetch>>

\* lines 89, 94-99, then 55, 58-60: the body decodes, the token is built and returned,
\* GetAccessToken stores it and returns its value
FetchOK(p) ==
    /\ pc[p] = "decode"
    /\ UnmarshalOK(resp[p].Body)
    /\ resp' = [resp EXCEPT ![p] = NoResp]
    /\ StoreAndReturn(p, BuildToken(Unmarshal(resp[p].Body), now))
    /\ UNCHANGED <<mutex, now, args, req, nfetch, lookup, issue, sawFetch>>

\* line 46: the deferred tm.mutex.Unlock() runs and the call returns to its caller
Unlock(p) ==
    /\ pc[p] = "unlock"
    /\ mutex' = Unlocked
    /\ pc' = [pc EXCEPT ![p] = "idle"]
    /\ clientID' = [clientID EXCEPT ![p] = NoArg]
    /\ clientSecret' = [clientSecret EXCEPT ![p] = NoArg]
    /\ uaaUrl' = [uaaUrl EXCEPT ![p] = NoArg]
    /\ result' = [result EXCEPT ![p] = NoResult]
    /\ nfetch' = [nfetch EXCEPT ![p] = 0]
    /\ seen' = [seen EXCEPT ![p] = << >>]
    /\ seenFresh' = [seenFresh EXCEPT ![p] = FALSE]
    /\ seenInHour' = [seenInHour EXCEPT ![p] = FALSE]
    /\ staleAt' = [staleAt EXCEPT ![p] = {}]
    /\ fetched' = [fetched EXCEPT ![p] = {}]
    /\ issuedStale' = [issuedStale EXCEPT ![p] = FALSE]
    /\ sawFetch' = [sawFetch EXCEPT ![p] = FALSE]
    /\ sawStore' = [sawStore EXCEPT ![p] = {}]
    /\ sawOther' = [sawOther EXCEPT ![p] = FALSE]
    /\ UNCHANGED <<tokenCache, now, req, resp, insertedAt, lastFailed>>

Next ==
    \/ Tick
    \/ \E p \in Procs :
        \/ Call(p)
        \/ Lock(p)
        \/ CacheHit(p)
        \/ CacheMiss(p)
        \/ NewRequestOK(p)
        \/ NewRequestErr(p)
        \/ DoOK(p)
        \/ DoErr(p)
        \/ ReadAllOK(p)
        \/ ReadAllErr(p)
        \/ UnmarshalErr(p)
        \/ FetchOK(p)
        \/ Unlock(p)

Spec == Init /\ [][Next]_vars

\* ---- what the claims speak of ------------------------------------------------

\* the call of p has computed what it returns and is about to run the deferred Unlock
AtReturn(p) == pc[p] = "unlock"
\* p is inside generateAccessToken (line 54)
Fetching(p) == pc[p] \in {"newreq", "do", "read", "decode"}
\* p is between Lock (line 45) and the deferred Unlock
InCritical(p) == pc[p] \in {"lookup", "newreq", "do", "read", "decode", "unlock"}
\* the line 49 of p's call has run
LookedUp(p) == pc[p] \in {"newreq", "do", "read", "decode", "unlock"}
\* the entry the key of p's call had at line 49, when it had one
HadEntry(p) == LookedUp(p) /\ clientID[p] \in DOMAIN seen[p]
SeenEntry(p) == seen[p][clientID[p]]

\* C1: at most one generateAccessToken is in flight over all callers and keys, and
\* every caller that is at a point where it reads or writes the cache map (anywhere
\* between Lock and Unlock) is the one holding the mutex.
C1_OneFetchUnderLock ==
    /\ Cardinality({p \in Procs : Fetching(p)}) <= 1
    /\ \A p \in Procs : InCritical(p) => mutex = p

\* a fetch for one key is in flight while a call for the other key waits for the lock
C1_Witness ==
    \E p, q \in Procs :
        /\ pc[p] = "do" /\ pc[q] = "lock"
        /\ clientID[p] # clientID[q]
        /\ ~IsFresh(tokenCache, clientID[q], now)

\* C2: a call whose key had, at the lookup, an entry expiring strictly after the lookup
\* time returns that entry's value with a nil error, makes no fetch, and leaves the
\* cache as it found it.
C2_CacheHit ==
    \A p \in Procs :
        (AtReturn(p) /\ seenFresh[p]) =>
            /\ result[p] = [value |-> SeenEntry(p).Value, err |-> Nil]
            /\ nfetch[p] = 0
            /\ tokenCache = seen[p]

\* a hit at a time after the entry was stored
C2_Witness ==
    \E p \in Procs :
        /\ AtReturn(p) /\ seenFresh[p] /\ nfetch[p] = 0
        /\ result[p].value = "xyz789"
        /\ now > insertedAt[clientID[p]]

\* C3: a call whose key had no entry or an expired entry at the lookup makes exactly one
\* fetch; when the fetch succeeds the call returns the value of the token the fetcher
\* returned and that token is the key's entry, whatever the entry was before.
C3_CacheMiss ==
    \A p \in Procs :
        (AtReturn(p) /\ ~seenFresh[p]) =>
            /\ nfetch[p] = 1
            /\ result[p].err = Nil =>
                /\ Cardinality(fetched[p]) = 1
                /\ \A tok \in fetched[p] :
                    /\ result[p].value = tok.Value
                    /\ clientID[p] \in DOMAIN tokenCache
                    /\ tokenCache[clientID[p]] = tok

\* a successful fetch that replaced an expired entry holding another value
C3_Witness ==
    \E p \in Procs :
        /\ AtReturn(p) /\ HadEntry(p) /\ ~seenFresh[p]
        /\ result[p].err = Nil
        /\ result[p].value # SeenEntry(p).Value

\* C4: when the fetch of a call fails, the whole cache is what it was at the call's
\* lookup: an expired entry of the key keeps its value and expiry, a missing one stays
\* missing.
C4_ErrorNonPoisoning ==
    \A p \in Procs :
        (AtReturn(p) /\ result[p].err # Nil) => tokenCache = seen[p]

\* a failed refresh of an expired entry
C4_Witness ==
    \E p \in Procs :
        /\ AtReturn(p) /\ result[p].err = "TransportError"
        /\ HadEntry(p) /\ ~seenFresh[p]
        /\ tokenCache[clientID[p]] = SeenEntry(p)

\* C5 (as stated): of the concurrent callers issued for a key whose entry has expired,
\* one fetches; a caller that was blocked at Lock while that one fetched makes no fetch
\* itself and returns the value of the entry it then finds.  (Stated for bursts that are
\* over within the hour: if a token was stored while the caller waited, the caller
\* looked up less than one hour later.)
C5_Original ==
    \A p \in Procs :
        (/\ AtReturn(p) /\ issuedStale[p] /\ sawFetch[p] /\ HadEntry(p)
         /\ sawStore[p] # {} => seenInHour[p]) =>
            /\ nfetch[p] = 0
            /\ result[p] = [value |-> tokenCache[clientID[p]].Value, err |-> Nil]

\* C5 (amended): a caller that was blocked at Lock while another caller stored a fresh
\* token for the same key, and that looks up less than one hour after that store, makes
\* no fetch and returns the value of that token with a nil error.
C5_BurstOneFetch ==
    \A p \in Procs :
        (AtReturn(p) /\ sawStore[p] # {} /\ seenInHour[p]) =>
            /\ nfetch[p] = 0
            /\ result[p].err = Nil
            /\ \A tok \in sawStore[p] : result[p].value = tok.Value

\* a burst on an expired entry: the caller was issued when the key's entry (stored at
\* time 0) had expired, waited while the refresh was stored, and returns it unfetched
C5_Witness ==
    \E p \in Procs :
        /\ AtReturn(p) /\ issuedStale[p] /\ sawFetch[p] /\ nfetch[p] = 0
        /\ sawStore[p] = {SeenEntry(p)}
        /\ SeenEntry(p).ExpiresAt = Hour + Hour

\* C6 (as stated): of concurrent calls that all needed a fetch when issued, for the same
\* key or not, each makes exactly one fetch (N calls, N fetches), also the one that
\* waited for the lock while another of them fetched for its key; and no two fetches
\* overlap.
C6_Original ==
    /\ \A p \in Procs : (AtReturn(p) /\ issuedStale[p] /\ sawFetch[p]) => nfetch[p] = 1
    /\ \A p \in Procs : (AtReturn(p) /\ issuedStale[p] /\ sawStore[p] = {}) => nfetch[p] = 1
    /\ \A p, q \in Procs : (Fetching(p) /\ Fetching(q)) => p = q

\* C6 (amended): a call that needed a fetch when it was issued makes exactly one fetch
\* unless a token was stored for its key while it waited for the lock (so calls for
\* pairwise distinct keys make one fetch each); no call makes more than one fetch; and
\* no two fetches overlap.
C6_Serialization ==
    /\ \A p \in Procs : (AtReturn(p) /\ issuedStale[p] /\ sawStore[p] = {}) => nfetch[p] = 1
    /\ \A p \in Procs : nfetch[p] <= 1
    /\ \A p, q \in Procs : (Fetching(p) /\ Fetching(q)) => p = q

\* two overlapping calls for different keys, both needing a fetch when issued: one has
\* fetched and is about to return, the other still waits for the lock
C6_Witness ==
    \E p, q \in Procs :
        /\ AtReturn(p) /\ issuedStale[p] /\ nfetch[p] = 1
        /\ pc[q] = "lock" /\ issuedStale[q] /\ clientID[q] # clientID[p]
        /\ clientID[p] \in DOMAIN tokenCache /\ clientID[q] \notin DOMAIN tokenCache

\* C7: every entry expires exactly one hour after it was built and stored, whatever
\* expires_in the server sent; and a lookup of a key that has an entry is served from
\* the cache (no fetch) exactly when it happens less than one hour after the store.
C7_FixedWindow ==
    /\ \A id \in DOMAIN tokenCache : tokenCache[id].ExpiresAt = insertedAt[id] + Hour
    /\ \A p \in Procs : HadEntry(p) => (seenInHour[p] <=> nfetch[p] = 0)

\* a token the server sent with expires_in = 4 (two hours) is fetched again at a lookup
\* one hour after it was stored
C7_Witness ==
    \E p \in Procs :
        /\ HadEntry(p) /\ ~seenInHour[p] /\ nfetch[p] = 1
        /\ SeenEntry(p).Value = "xyz789"

\* C8: a call that found its key's entry expired at the lookup returns either an error
\* with an empty value, or with a nil error the value of the token it has just fetched.
C8_NoStaleFallback ==
    \A p \in Procs :
        (AtReturn(p) /\ HadEntry(p) /\ ~seenFresh[p]) =>
            \/ result[p].err # Nil /\ result[p].value = "" /\ fetched[p] = {}
            \/ /\ result[p].err = Nil
               /\ fetched[p] # {}
               /\ \A tok \in fetched[p] :
                    result[p].value = tok.Value /\ tok = tokenCache[clientID[p]]

\* the refresh of an expired entry failed and the call returns the error
C8_Witness ==
    \E p \in Procs :
        /\ AtReturn(p) /\ HadEntry(p) /\ ~seenFresh[p]
        /\ SeenEntry(p).Value = "abc123"
        /\ result[p] = [value |-> "", err |-> "DecodeError"]

\* C9: a call invokes the fetcher at most once; a call whose fetch failed returns the
\* error with an empty value after that single fetch; and as long as the latest result
\* for a key is an error the key has no valid entry, so that the next lookup of the key
\* goes to the fetcher again.
C9_NoRetryThenRetry ==
    /\ [](\A p \in Procs :
            /\ nfetch[p] <= 1
            /\ (AtReturn(p) /\ result[p].err # Nil) => (result[p].value = "" /\ nfetch[p] = 1))
    /\ [](\A id \in ClientIDs : lastFailed[id] => ~IsFresh(tokenCache, id, now))
    /\ [][\A p \in Procs :
            (pc[p] = "lookup" /\ pc'[p] # "lookup" /\ lastFailed[clientID[p]]) =>
                (pc'[p] = "newreq" /\ nfetch'[p] = 1)]_vars

\* the call after a failed call for the same key is fetching
C9_Witness ==
    \E p \in Procs : pc[p] = "do" /\ lastFailed[clientID[p]] /\ nfetch[p] = 1

\* C10: every entry expires after the time at which it was written; an entry that was
\* valid stops being valid only by a step of the clock that leaves the cache alone; and
\* an existing entry changes only when it has expired, by the call for its key that
\* holds the lock and found it expired at its lookup.
C10_FreshAtInsertion ==
    /\ [](\A id \in DOMAIN tokenCache : tokenCache[id].ExpiresAt > insertedAt[id])
    /\ [][\A id \in ClientIDs :
            /\ (IsFresh(tokenCache, id, now) /\ ~IsFresh(tokenCache', id, now')) =>
                   (now' > now /\ tokenCache' = tokenCache)
            /\ (id \in DOMAIN tokenCache /\ tokenCache' # tokenCache
                   /\ (id \notin DOMAIN tokenCache' \/ tokenCache'[id] # tokenCache[id])) =>
                   /\ ~IsFresh(tokenCache, id, now)
                   /\ \E p \in Procs :
                        /\ mutex = p /\ clientID[p] = id
                        /\ LookedUp(p) /\ ~seenFresh[p]
                        /\ IsFresh(tokenCache', id, now')]_vars

\* an entry that had expired has just been replaced by one that expires later than now
C10_Witness ==
    \E p \in Procs :
        /\ AtReturn(p) /\ HadEntry(p) /\ ~seenFresh[p] /\ fetched[p] # {}
        /\ tokenCache[clientID[p]].ExpiresAt > now
        /\ now >= SeenEntry(p).ExpiresAt

\* C11: the cache is empty at construction, no step removes a key (the key set only
\* grows), and a key enters the map only in the step in which a call for that very key
\* gets a token from generateAccessToken and stores it under the mutex.
C11_KeysOnlyGrow ==
    /\ DOMAIN tokenCache = {}
    /\ [][/\ DOMAIN tokenCache \subseteq DOMAIN tokenCache'
          /\ \A id \in DOMAIN tokenCache' \ DOMAIN tokenCache :
                \E p \in Procs :
                    /\ clientID[p] = id /\ mutex = p
                    /\ pc[p] = "decode" /\ AtReturn(p)'
                    /\ result'[p].err = Nil
                    /\ fetched'[p] = {tokenCache'[id]}]_vars

\* both keys are present, one of them through a failed refresh that left it in place
C11_Witness ==
    /\ DOMAIN tokenCache = ClientIDs
    /\ \E p \in Procs :
        /\ AtReturn(p) /\ result[p].err = "TransportError" /\ HadEntry(p)
        /\ clientID[p] \in DOMAIN tokenCache

\* C12: the status code is never looked at. A response with a non-2xx status whose
\* body is JSON without an access_token member makes the fetch succeed: the call
\* returns "" with a nil error and the entry ["" , now + Hour] is stored; and a call
\* that looks the key up less than an hour after such an entry was stored is a cache
\* hit that returns "" with a nil error without any fetch.
C12_EmptyTokenCached ==
    /\ [](\A p \in Procs :
            (AtReturn(p) /\ HadEntry(p) /\ seenInHour[p] /\ SeenEntry(p).Value = "")
                => (result[p] = [value |-> "", err |-> Nil] /\ nfetch[p] = 0))
    /\ [][\A p \in Procs :
            (/\ pc[p] = "decode" /\ pc'[p] # pc[p]
             /\ resp[p].StatusCode \notin 200..299
             /\ resp[p].Body.json /\ resp[p].Body.access_token = Absent)
                => (/\ AtReturn(p)'
                    /\ result'[p] = [value |-> "", err |-> Nil]
                    /\ clientID[p] \in DOMAIN tokenCache'
                    /\ tokenCache'[clientID[p]] = [Value |-> "", ExpiresAt |-> now + Hour])]_vars

\* a call is served the empty token from the cache, at a later time than it was stored
C12_Witness ==
    \E p \in Procs :
        /\ AtReturn(p) /\ nfetch[p] = 0 /\ seenInHour[p]
        /\ result[p] = [value |-> "", err |-> Nil]
        /\ SeenEntry(p) = tokenCache[clientID[p]]
        /\ insertedAt[clientID[p]] < now

\* C13: calls for different keys are fully serialized. While a fetch for one key is in
\* flight, a call for any other key has not read the cache, started a fetch or computed
\* its result: it is before Lock, and it stays there at every step, even when its own
\* key has a valid entry; it passes Lock only in a step in which the mutex is free,
\* that is after the fetching call ran its Unlock.
C13_CrossKeySerialized ==
    /\ [](\A p, q \in Procs :
            (Fetching(p) /\ q # p /\ clientID[q] # clientID[p]) => pc[q] \in {"idle", "lock"})
    /\ [][\A p, q \in Procs :
            (Fetching(p) /\ q # p /\ pc[q] = "lock" /\ clientID[q] # clientID[p])
                => (pc'[q] = "lock" /\ result'[q] = NoResult /\ seen'[q] = << >>)]_vars
    /\ [][\A q \in Procs :
            (pc[q] = "lock" /\ pc'[q] # "lock")
                => (mutex = Unlocked /\ \A p \in Procs : ~Fetching(p))]_vars

\* a fetch for one key has its response while a call for the other key, whose entry
\* is valid, waits for the lock
C13_Witness ==
    \E p, q \in Procs :
        /\ pc[p] = "read" /\ pc[q] = "lock"
        /\ clientID[q] # clientID[p]
        /\ IsFresh(tokenCache, clientID[q], now)

\* the error generateAccessToken returns when the step at which p stands fails
StepError(p) ==
    CASE pc[p] = "newreq" -> "RequestBuildError"
      [] pc[p] = "do"     -> "TransportError"
      [] pc[p] = "read"   -> "ReadError"
      [] pc[p] = "decode" -> "DecodeError"
\* the step that follows the one at which p stands
StepAfter(p) ==
    CASE pc[p] = "newreq" -> "do"
      [] pc[p] = "do"     -> "read"
      [] pc[p] = "read"   -> "decode"
      [] pc[p] = "decode" -> "unlock"

\* C14: generateAccessToken yields a token only when every step succeeded. Each step of
\* a fetch either goes on to the next step, nothing being returned or stored yet, or
\* fails: then the call's result is "" with that step's error, there is no token, the
\* cache is left as it was and no later step runs (no request is sent, no response is
\* held). A token is built only in the step in which the body decoded, and its value is
\* the access_token of that response.
C14_AllStepsOrError ==
    /\ [](\A p \in Procs : (AtReturn(p) /\ result[p].err # Nil) => fetched[p] = {})
    /\ [][\A p \in Procs :
            (Fetching(p) /\ pc'[p] # pc[p]) =>
                \/ /\ pc'[p] = StepAfter(p) /\ pc[p] # "decode"
                   /\ result'[p] = NoResult /\ fetched'[p] = {} /\ tokenCache' = tokenCache
                \/ /\ AtReturn(p)'
                   /\ result'[p] = [value |-> "", err |-> StepError(p)]
                   /\ fetched'[p] = {} /\ tokenCache' = tokenCache
                   /\ req'[p] = NoReq /\ resp'[p] = NoResp
                   /\ pc[p] = "decode" => ~resp[p].Body.json
                \/ /\ pc[p] = "decode" /\ AtReturn(p)'
                   /\ resp[p].Body.json
                   /\ result'[p].err = Nil
                   /\ \E tok \in fetched'[p] :
                        /\ fetched'[p] = {tok}
                        /\ tok.Value = result'[p].value
                        /\ resp[p].Body.access_token # Absent
                              => tok.Value = resp[p].Body.access_token]_vars

\* a call whose request was built and sent failed at reading the body, while the key
\* keeps the entry it had
C14_Witness ==
    \E p \in Procs :
        /\ AtReturn(p) /\ result[p] = [value |-> "", err |-> "ReadError"]
        /\ fetched[p] = {} /\ nfetch[p] = 1
        /\ HadEntry(p) /\ tokenCache[clientID[p]] = SeenEntry(p)

\* C15: the cache is keyed by clientID alone. Whatever clientSecret and uaaUrl a call
\* passes, if its key has a valid entry at the lookup the call returns that entry's
\* value with a nil error, fetches nothing and leaves the cache as it is; in
\* particular a call that waited while a fetch made with another secret or endpoint
\* stored a token for its key returns that very token.
C15_KeyedByClientID ==
    /\ [](\A p \in Procs :
            (AtReturn(p) /\ seenFresh[p] /\ sawOther[p] /\ sawStore[p] # {})
                => (/\ sawStore[p] = {SeenEntry(p)}
                    /\ result[p] = [value |-> SeenEntry(p).Value, err |-> Nil]
                    /\ nfetch[p] = 0))
    /\ [][\A p \in Procs : \A secret \in Secrets, url \in Urls :
            (/\ pc[p] = "lookup" /\ pc'[p] # pc[p]
             /\ clientSecret[p] = secret /\ uaaUrl[p] = url
             /\ IsFresh(tokenCache, clientID[p], now))
                => (/\ AtReturn(p)'
                    /\ result'[p] = [value |-> tokenCache[clientID[p]].Value, err |-> Nil]
                    /\ nfetch'[p] = 0 /\ fetched'[p] = {}
                    /\ tokenCache' = tokenCache
                    /\ clientSecret'[p] = secret /\ uaaUrl'[p] = url)]_vars

\* a call with a well-formed endpoint is served the token that a fetch made with
\* another secret stored while the call waited for the lock
C15_Witness ==
    \E p \in Procs :
        /\ AtReturn(p) /\ seenFresh[p] /\ nfetch[p] = 0
        /\ sawOther[p] /\ uaaUrl[p] = GoodUrl
        /\ sawStore[p] = {SeenEntry(p)}
        /\ result[p] = [value |-> "abc123", err |-> Nil]

\* C16: a call changes at most the entry of its own key. When a call is about to
\* return, be it a hit, a successful fetch or a failed one, every other key is present
\* exactly if it was at the call's lookup, with the same value and expiry; and no step
\* changes the presence or the entry of a key other than the key of the call that
\* holds the mutex.
C16_OtherKeysUntouched ==
    /\ [](\A p \in Procs : \A id \in ClientIDs :
            (AtReturn(p) /\ id # clientID[p])
                => (/\ id \in DOMAIN tokenCache <=> id \in DOMAIN seen[p]
                    /\ id \in DOMAIN tokenCache => tokenCache[id] = seen[p][id]))
    /\ [][\A id \in ClientIDs :
            (\/ (id \in DOMAIN tokenCache') # (id \in DOMAIN tokenCache)
             \/ /\ id \in DOMAIN tokenCache /\ id \in DOMAIN tokenCache'
                /\ tokenCache'[id] # tokenCache[id])
                => (mutex \in Procs /\ clientID[mutex] = id)]_vars

\* a call replaced the expired entry of its key while the other key kept its entry
C16_Witness ==
    \E p \in Procs : \E id \in ClientIDs :
        /\ AtReturn(p) /\ id # clientID[p]
        /\ fetched[p] # {} /\ HadEntry(p)
        /\ tokenCache[clientID[p]] # SeenEntry(p)
        /\ id \in DOMAIN tokenCache /\ tokenCache[id] = seen[p][id]

\* ---- the calls under a fair scheduler ------------------------------------------

\* one step of the call of p between Lock and its return
Step(p) ==
    \/ CacheHit(p)
    \/ CacheMiss(p)
    \/ NewRequestOK(p)
    \/ NewRequestErr(p)
    \/ DoOK(p)
    \/ DoErr(p)
    \/ ReadAllOK(p)
    \/ ReadAllErr(p)
    \/ UnmarshalErr(p)
    \/ FetchOK(p)
    \/ Unlock(p)

\* a goroutine that can run does run, so every fetch comes back (weak fairness of the
\* steps of the call that holds the mutex, the only one that can take a step), and a
\* goroutine blocked in Lock gets the mutex if it is freed again and again (strong
\* fairness of Lock)
Fairness == WF_vars(\E p \in Procs : Step(p)) /\ \A p \in Procs : SF_vars(Lock(p))
FairSpec == Spec /\ Fairness

\* C17: the mutex is released on every exit path, so no call is blocked for ever:
\* under the fair scheduler every call that was started returns, that is every
\* goroutine is again and again outside GetAccessToken.
C17_EveryCallReturns == \A p \in Procs : []<>(pc[p] = "idle")

\* a call is queued at Lock behind a call whose fetch failed and which has not yet
\* run its deferred Unlock
C17_Witness ==
    \E p, q \in Procs :
        /\ pc[q] = "lock"
        /\ AtReturn(p) /\ mutex = p /\ result[p].err = "TransportError"

\* C18: the clock never goes back, and the ExpiresAt stored for a key strictly
\* increases on every overwrite: an entry is replaced only by a call whose lookup
\* happened at or after the entry's ExpiresAt, and the ExpiresAt of the replacement is
\* at least one hour after the time of that lookup.
C18_ExpiryIncreases ==
    /\ [](\A p \in Procs :
            (AtReturn(p) /\ fetched[p] # {} /\ HadEntry(p))
                => \E t \in staleAt[p] :
                    /\ t >= SeenEntry(p).ExpiresAt
                    /\ tokenCache[clientID[p]].ExpiresAt >= t + Hour
                    /\ tokenCache[clientID[p]].ExpiresAt > SeenEntry(p).ExpiresAt)
    /\ [][now' >= now]_vars
    /\ [][\A id \in DOMAIN tokenCache \cap DOMAIN tokenCache' :
            tokenCache'[id] # tokenCache[id]
                => tokenCache'[id].ExpiresAt > tokenCache[id].ExpiresAt]_vars

\* an entry that had expired was replaced by one that expires an hour after the lookup
C18_Witness ==
    \E p \in Procs :
        /\ AtReturn(p) /\ fetched[p] # {} /\ HadEntry(p)
        /\ staleAt[p] = {SeenEntry(p).ExpiresAt}
        /\ tokenCache[clientID[p]].ExpiresAt = SeenEntry(p).ExpiresAt + Hour

====
